---- MODULE Spec2Model ----
(***************************************************************************)
(* ap_pipe: the sequential driver functions of python/lsst/ap/pipe/        *)
(* ap_pipe.py (doIngest, doIngestCalibs, doProcessCcd, doDiffIm,           *)
(* runPipelineAlone) over an abstract output directory, and the image      *)
(* selection of python/lsst/ap/pipe/selectImages.py.                       *)
(*                                                                         *)
(* The filesystem below the output location is the set fs of the paths     *)
(* that exist.  Paths are relative to the output location, which           *)
(* get_output_repos has created.  The external tasks are modelled by the   *)
(* products the source documents for them (the RESULT sections of the      *)
(* docstrings and the markers the code looks for: a flat and bias ingest   *)
(* that succeeds leaves cpBIAS, ProcessCcd leaves '0'+visit, and so on)    *)
(* and by an outcome that each action draws: they succeed, or raise.       *)
(***************************************************************************)
EXTENDS Integers, Sequences, FiniteSets, TLC

VARIABLES
    fs,             \* set of the paths that exist below the output location
    pc,             \* position of runPipelineAlone
    runDataId,      \* the dataId of the current pipeline run (idlist[0])
    started,        \* stages started in the current pipeline run, in order
    runTasks,       \* external tasks invoked in the current pipeline run
    runRets,        \* return values of the stages of the current pipeline run
    runOk,          \* every external task invoked in the current run succeeded
    prevRun,        \* the pipeline run before the current one
    last,           \* the last call of a driver function and what it did
    defectsIngested, \* history: a call has run the defect ingest task to its end
    patchPoly,      \* runDataRef: convexHull of the vertices of coordList
    selectDataList, \* runDataRef: the candidate images
    selPrev,        \* runDataRef: the call before the last one
    selLast,        \* runDataRef: the last call
    dataset_root,   \* get_calibdatafiles: the top-level directory of the dataset
    calibDir,       \* get_calibdatafiles: the names in dataset_root/calib, as listed
    calibLast       \* get_calibdatafiles: the last call

vars == <<fs, pc, runDataId, started, runTasks, runRets, runOk, prevRun, last,
          defectsIngested,
          patchPoly, selectDataList, selPrev, selLast,
          dataset_root, calibDir, calibLast>>

pipeVars == <<fs, pc, runDataId, started, runTasks, runRets, runOk, prevRun, last,
              defectsIngested>>
selVars == <<patchPoly, selectDataList, selPrev, selLast>>
fileVars == <<dataset_root, calibDir, calibLast>>

(***************************************************************************)
(* Paths                                                                   *)
(***************************************************************************)
Join(a, b) == a \o "/" \o b

INGESTED_DIR == "ingested"
CALIBINGESTED_DIR == "calibingested"
PROCESSED_DIR == "processed"
DIFFIM_DIR == "diffim"

repo == INGESTED_DIR
calib_repo == CALIBINGESTED_DIR
processed_repo == PROCESSED_DIR
diffim_repo == DIFFIM_DIR

registry == Join(repo, "registry.sqlite3")
mapperFile == Join(repo, "_mapper")
ASTROM_REFCAT_DIR == "ref_cats/gaia"
PHOTOM_REFCAT_DIR == "ref_cats/pan-starrs"
cpBIAS == Join(calib_repo, "cpBIAS")
defectsDir == Join(calib_repo, "defects")

\* the paths of the model that are regular files; every other path is a directory
IsFilePath(p) == p \in {registry, mapperFile}

Exists(f, p) == p \in f
IsDir(f, p) == p \in f /\ ~IsFilePath(p)

(***************************************************************************)
(* Values: None and metadata (a PropertySet is the set of the tasks whose  *)
(* metadata it holds)                                                      *)
(***************************************************************************)
None == [isNone |-> TRUE, md |-> {}]
Meta(s) == [isNone |-> FALSE, md |-> s]

\* PropertySet.combine: the receiver takes the other's entries as well
combine(a, b) == Meta(a.md \cup b.md)

\* what a call of a function did: the filesystem it leaves, the functions of
\* this module it called, the external tasks it ran, the exception that left
\* it ("" when it returned) and the value it returned
Returned(f, calls, tasks, val) ==
    [fs |-> f, calls |-> calls, tasks |-> tasks, exc |-> "", val |-> val]
Raised(f, calls, tasks, exc) ==
    [fs |-> f, calls |-> calls, tasks |-> tasks, exc |-> exc, val |-> None]

(***************************************************************************)
(* dataId strings.  A dataId is the sequence of its maximal runs of        *)
(* non-delimiter characters and of its single delimiter characters, e.g.   *)
(* 'visit=410985 ccdnum=25' is <<"visit","=","410985"," ","ccdnum","=",    *)
(* "25">>.                                                                 *)
(***************************************************************************)
Delimiters == {" ", "+", "="}

RECURSIVE SplitFrom(_, _, _)
SplitFrom(toks, i, cur) ==
    IF i > Len(toks) THEN <<cur>>
    ELSE IF toks[i] \in Delimiters
         THEN <<cur>> \o SplitFrom(toks, i + 1, "")
         ELSE SplitFrom(toks, i + 1, cur \o toks[i])

\* re.split('[ +=]', dataId)
dataId_items(dataId) == SplitFrom(dataId, 1, "")

Max(S) == CHOOSE x \in S : \A y \in S : y <= x

\* dict(zip(dataId_items[::2], dataId_items[1::2])): a later pair overrides
dataId_dict(dataId) ==
    LET items == dataId_items(dataId)
        n == Len(items) \div 2
        keys == {items[2 * i - 1] : i \in 1..n}
    IN [k \in keys |-> items[2 * Max({i \in 1..n : items[2 * i - 1] = k})]]

HasVisit(dataId) == "visit" \in DOMAIN dataId_dict(dataId)
VisitOf(dataId) == dataId_dict(dataId)["visit"]
CcdnumOf(dataId) ==
    LET d == dataId_dict(dataId)
    IN IF "ccdnum" \in DOMAIN d THEN d["ccdnum"] ELSE ""

\* the dataIds the functions are called with
SCIENCE_VISIT == "410985"
TEMPLATE_VISIT == "410929"
DataId(visit, ccdnum) == <<"visit", "=", visit, " ", "ccdnum", "=", ccdnum>>
dataId_template == DataId(TEMPLATE_VISIT, "25")
DataIds ==
    { DataId(SCIENCE_VISIT, "25"), DataId(SCIENCE_VISIT, "5"),
      dataId_template, <<"ccdnum", "=", "25">> }
template == TEMPLATE_VISIT

(***************************************************************************)
(* External tasks.  A task succeeds ("ok") or raises ("fail"); a task that *)
(* raises has written all of its products (partial) or none of them.       *)
(***************************************************************************)
TaskOutcomes == {"ok", "fail"}
CalibOutcomes == {"ok", "IntegrityError", "fail"}

\* what a task has written when it ends: on success its products, on a
\* failure the part of them it wrote before the failure, or nothing
Written(out, partial, products, early) ==
    IF out = "ok" THEN products ELSE IF partial THEN early ELSE {}

\* DecamIngestTask.run: repo gets the links to the raw files and the registry
IngestTaskProducts == {registry}

\* IngestCalibsTask.run on flats and biases: calib_repo gets the links to
\* the files, those to the biases below cpBIAS (the calibration registry,
\* which no function of ap_pipe reads, is left out)
FlatBiasTaskProducts == {cpBIAS}

\* the directory of a visit in processed_repo
ProcessedVisitDir(visit) == Join(processed_repo, "0" \o visit)

\* the calexp ProcessCcdTask writes for one CCD of one visit
Calexp(visit, ccdnum) ==
    Join(ProcessedVisitDir(visit), "calexp-" \o ccdnum)

\* ProcessCcdTask.run: processed_repo/visit gets the post-ISR data of the CCD
ProcessCcdProducts(dataId) ==
    {ProcessedVisitDir(VisitOf(dataId)), Calexp(VisitOf(dataId), CcdnumOf(dataId))}

\* the directory of a visit's difference images in diffim_repo
DiffimVisitDir(visit) == Join(Join(diffim_repo, "deepDiff"), "v" \o visit)

\* ImageDifferenceTask.parseAndRun: diffim_repo/deepDiff/v+visit gets the
\* difference images
DiffImProducts(dataId) ==
    {Join(diffim_repo, "deepDiff"), DiffimVisitDir(VisitOf(dataId))}

(***************************************************************************)
(* doIngest                                                                *)
(***************************************************************************)
IngestDone_OtherName(f) == Exists(f, Join(repo, "registry.sqlite"))

\* os.path.exists(os.path.join(repo, 'registry.sqlite3'))
IngestDone(f) == Exists(f, registry)

\* tarfile.open(...).extractall(...) of the two reference catalogs, of which
\* the first n succeed
ExtractedRefcats(n) ==
    (IF n >= 1 THEN {Join(repo, "ref_cats"), Join(repo, ASTROM_REFCAT_DIR)} ELSE {})
    \cup (IF n >= 2 THEN {Join(repo, PHOTOM_REFCAT_DIR)} ELSE {})

\* out, partial: how the ingest task ends; n: the tarballs that extract
doIngest(f, out, partial, n) ==
    IF IngestDone(f) THEN Returned(f, <<>>, <<>>, None)
    ELSE LET f1 == f \cup {repo, mapperFile}
             f2 == f1 \cup Written(out, partial, IngestTaskProducts, {registry})
             f3 == f2 \cup ExtractedRefcats(n)
         IN IF out # "ok" THEN Raised(f2, <<>>, <<"ingest">>, "TaskError")
            ELSE IF n < 2 THEN Raised(f3, <<>>, <<"ingest">>, "IOError")
            ELSE Returned(f3, <<>>, <<"ingest">>, Meta({"ingest"}))

(***************************************************************************)
(* flatBiasIngest, defectIngest, doIngestCalibs                            *)
(***************************************************************************)
\* log.error('sqlite3.IntegrityError: ', detail): the message has no
\* conversion for its argument.  A logger that builds the message with
\* fmt % args raises TypeError there (logRaises); one that ignores the
\* mismatch returns.
logError(logRaises) == IF logRaises THEN "TypeError" ELSE ""

flatBiasIngest(f, out, partial, logRaises) ==
    LET f1 == f \cup Written(out, partial, FlatBiasTaskProducts, {cpBIAS})
        task == <<"flatBias">>
    IN CASE out = "ok" -> Returned(f1, <<>>, task, Meta({"flatBias"}))
         [] out = "IntegrityError" ->
                IF logError(logRaises) = "" THEN Returned(f1, <<>>, task, None)
                ELSE Raised(f1, <<>>, task, logError(logRaises))
         [] OTHER -> Raised(f1, <<>>, task, "TaskError")

MkdirDefectsRaises_OnlyFailure(f, mkdirFails) == mkdirFails

\* os.mkdir('defects') in calib_repo raises OSError: the directory exists,
\* or it cannot be created (mkdirFails)
MkdirDefectsRaises(f, mkdirFails) == Exists(f, defectsDir) \/ mkdirFails

\* extracts: the defect tarball extracts; out: how the task ends.  The
\* call works in calib_repo (os.chdir) and goes back two levels in its
\* finally clause; the output location is taken to be one level below the
\* working directory, as in the USAGE of parsePipelineArgs, so that the
\* paths of the model keep their meaning.
defectIngest(f, mkdirFails, extracts, out) ==
    IF MkdirDefectsRaises(f, mkdirFails) THEN Returned(f, <<>>, <<>>, None)
    ELSE LET f1 == f \cup {defectsDir}
             f2 == f1 \cup {Join(defectsDir, "defects_2014-12-05")}
         IN IF ~extracts THEN Raised(f1, <<>>, <<>>, "IOError")
            ELSE IF out # "ok" THEN Raised(f2, <<>>, <<"defects">>, "TaskError")
            ELSE Returned(f2, <<>>, <<"defects">>, Meta({"defect"}))

calibingest_metadata_FlatBiasOnly(flatBias_metadata, defect_metadata) ==
    IF ~flatBias_metadata.isNone
    THEN IF ~defect_metadata.isNone
         THEN combine(flatBias_metadata, defect_metadata)
         ELSE flatBias_metadata
    ELSE None

\* ap_pipe.py 476-481: "the case where one or both of the calib metadatas
\* may be None"
calibingest_metadata(flatBias_metadata, defect_metadata) ==
    IF ~flatBias_metadata.isNone
    THEN IF ~defect_metadata.isNone
         THEN combine(flatBias_metadata, defect_metadata)
         ELSE flatBias_metadata
    ELSE defect_metadata

RunsFlatBias_NewRepoOnly(f) == ~IsDir(f, calib_repo)

\* the branch of doIngestCalibs runs flatBiasIngest
RunsFlatBias(f) == ~IsDir(f, calib_repo) \/ ~Exists(f, cpBIAS)

\* the branch of doIngestCalibs runs defectIngest
RunsDefects(f) == TRUE

\* the flat and bias part of doIngestCalibs (464-466, 468-470, 472-473)
\* i: the inputs, [fbOut, fbPartial, logRaises, mkdirFails, extracts, dfOut]
flatBiasPart(f, i) ==
    LET f1 == IF ~IsDir(f, calib_repo) THEN f \cup {calib_repo} ELSE f
    IN IF RunsFlatBias(f)
       THEN LET r == flatBiasIngest(f1, i.fbOut, i.fbPartial, i.logRaises)
            IN [r EXCEPT !.calls = <<"flatBiasIngest">>]
       ELSE Returned(f1, <<>>, <<>>, None)

\* the defect part of doIngestCalibs (467, 471, 474), on the filesystem g
\* the flat and bias part left
defectPart(f, g, i) ==
    IF RunsDefects(f)
    THEN LET r == defectIngest(g, i.mkdirFails, i.extracts, i.dfOut)
         IN [r EXCEPT !.calls = <<"defectIngest">>]
    ELSE Returned(g, <<>>, <<>>, None)

doIngestCalibs(f, i) ==
    LET fb == flatBiasPart(f, i)
        df == defectPart(f, fb.fs, i)
    IN IF fb.exc # "" THEN fb
       ELSE IF df.exc # ""
            THEN Raised(df.fs, fb.calls \o df.calls, fb.tasks \o df.tasks, df.exc)
            ELSE Returned(df.fs, fb.calls \o df.calls, fb.tasks \o df.tasks,
                          calibingest_metadata(fb.val, df.val))

(***************************************************************************)
(* doProcessCcd, doDiffIm                                                  *)
(***************************************************************************)
MissingVisit_AfterMkdir(f) == Raised(f \cup {processed_repo}, <<>>, <<>>, "RuntimeError")

\* raise RuntimeError: the dataId string is missing 'visit'
MissingVisit(f) == Raised(f, <<>>, <<>>, "RuntimeError")

\* os.path.isdir(os.path.join(processed_repo, '0'+visit))
ProcessCcdDone(f, visit) == IsDir(f, ProcessedVisitDir(visit))

doProcessCcd(f, dataId, out, partial) ==
    IF ~HasVisit(dataId) THEN MissingVisit(f)
    ELSE IF ProcessCcdDone(f, VisitOf(dataId)) THEN Returned(f, <<>>, <<>>, None)
    ELSE LET f1 == f \cup {processed_repo}
             f2 == f1 \cup Written(out, partial, ProcessCcdProducts(dataId),
                                   {ProcessedVisitDir(VisitOf(dataId))})
         IN IF out # "ok" THEN Raised(f2, <<>>, <<"processCcd">>, "TaskError")
            ELSE Returned(f2, <<>>, <<"processCcd">>, Meta({"processCcd"}))

DiffImDone_NoPrefix(f, visit) == Exists(f, Join(Join(diffim_repo, "deepDiff"), visit))

\* os.path.exists(os.path.join(diffim_repo, 'deepDiff', 'v' + visit))
DiffImDone(f, visit) == Exists(f, DiffimVisitDir(visit))

doDiffIm(f, dataId, tmpl, out, partial) ==
    IF ~HasVisit(dataId) THEN MissingVisit(f)
    ELSE IF DiffImDone(f, VisitOf(dataId)) THEN Returned(f, <<>>, <<>>, None)
    ELSE LET f1 == f \cup {diffim_repo}
             f2 == f1 \cup Written(out, partial, DiffImProducts(dataId),
                                   DiffImProducts(dataId))
         IN IF out # "ok" THEN Raised(f2, <<>>, <<"imageDifference">>, "TaskError")
            ELSE Returned(f2, <<>>, <<"imageDifference">>, Meta({"imageDifference"}))

(***************************************************************************)
(* The calls of the driver functions.  Each is called on its own (as       *)
(* ap_verify does) or as a stage of runPipelineAlone.                      *)
(***************************************************************************)
\* the inputs of a call that the caller does not choose: how the external
\* tasks, the extractions and the logger end
NoInputs ==
    [out |-> "ok", partial |-> FALSE, n |-> 2,
     fbOut |-> "ok", fbPartial |-> FALSE, logRaises |-> FALSE,
     mkdirFails |-> FALSE, extracts |-> TRUE, dfOut |-> "ok"]

AllInputs ==
    [out : TaskOutcomes, partial : BOOLEAN, n : 0..2,
     fbOut : CalibOutcomes, fbPartial : BOOLEAN, logRaises : BOOLEAN,
     mkdirFails : BOOLEAN, extracts : BOOLEAN, dfOut : TaskOutcomes]

\* the inputs that differ only in a choice the call never reads are one input
Canonical(i) ==
    /\ (i.out = "ok" => ~i.partial)
    /\ (i.out # "ok" => i.n = 2)
    /\ (i.fbOut = "ok" => ~i.fbPartial)
    /\ (i.fbOut # "IntegrityError" => ~i.logRaises)
    /\ (i.mkdirFails => i.extracts /\ i.dfOut = "ok")
    /\ (~i.extracts => i.dfOut = "ok")
    /\ (i.fbOut = "fail" \/ i.logRaises => ~i.mkdirFails /\ i.extracts /\ i.dfOut = "ok")

\* the inputs doIngest reads
IngestInputs ==
    {i \in AllInputs : /\ Canonical(i)
                       /\ \A k \in DOMAIN i \ {"out", "partial", "n"} : i[k] = NoInputs[k]}

\* the inputs doIngestCalibs reads
CalibInputs ==
    {i \in AllInputs : /\ Canonical(i)
                       /\ \A k \in {"out", "partial", "n"} : i[k] = NoInputs[k]}

\* the inputs doProcessCcd and doDiffIm read
TaskInputs ==
    {i \in AllInputs : /\ Canonical(i)
                       /\ \A k \in DOMAIN i \ {"out", "partial"} : i[k] = NoInputs[k]}

Stages == <<"doIngest", "doIngestCalibs", "doProcessCcd", "doProcessCcdTemplate", "doDiffIm">>

\* what the stage of runPipelineAlone, or the function called on its own, does
\* to the filesystem f with dataId d and inputs i
Call(op, f, d, i) ==
    CASE op = "doIngest" -> doIngest(f, i.out, i.partial, i.n)
      [] op = "doIngestCalibs" -> doIngestCalibs(f, i)
      [] op = "doProcessCcd" -> doProcessCcd(f, d, i.out, i.partial)
      [] op = "doProcessCcdTemplate" -> doProcessCcd(f, dataId_template, i.out, i.partial)
      [] OTHER -> doDiffIm(f, d, template, i.out, i.partial)

\* the call on filesystem f reads the inputs that i sets: a call that skips
\* or raises before a task, an extraction or the logger is reached has the
\* one input NoInputs
Reads(op, f, d, i) ==
    CASE op = "doIngest" -> (IngestDone(f) => i = NoInputs)
      [] op = "doIngestCalibs" ->
            /\ ~RunsFlatBias(f) => i.fbOut = "ok"
            /\ Exists(f, defectsDir) => ~i.mkdirFails /\ i.extracts /\ i.dfOut = "ok"
      [] op = "doProcessCcd" ->
            (~HasVisit(d) \/ ProcessCcdDone(f, VisitOf(d)) => i = NoInputs)
      [] op = "doProcessCcdTemplate" ->
            (ProcessCcdDone(f, VisitOf(dataId_template)) => i = NoInputs)
      [] OTHER -> (~HasVisit(d) \/ DiffImDone(f, VisitOf(d)) => i = NoInputs)

\* the dataId a call is about
CallDataId(op, d) ==
    CASE op \in {"doIngest", "doIngestCalibs"} -> <<>>
      [] op = "doProcessCcdTemplate" -> dataId_template
      [] OTHER -> d

\* the record of a call: its function, dataId and inputs, the filesystem at
\* its entry, what it did and, of doIngestCalibs, what its two parts did
Record(op, d, i, res) ==
    LET calibs == op = "doIngestCalibs"
        fb == flatBiasPart(fs, i)
        ran == calibs /\ fb.exc = ""
    IN [op |-> op, dataId |-> CallDataId(op, d), inputs |-> i, entry |-> fs, res |-> res,
        flatBias_metadata |-> IF calibs THEN fb.val ELSE None,
        flatBias_exc |-> IF calibs THEN fb.exc ELSE "",
        defect_metadata |-> IF ran THEN defectPart(fs, fb.fs, i).val ELSE None,
        defect_exc |-> IF ran THEN defectPart(fs, fb.fs, i).exc ELSE ""]

\* the call returned although an ingestion had failed in it: the flat and
\* bias task raised the integrity error that flatBiasIngest catches, or
\* defectIngest could not create 'defects' ("Defect ingestion failed")
TaskFailedInside(res, i) ==
    \/ \E k \in 1..Len(res.tasks) : res.tasks[k] = "flatBias" /\ i.fbOut # "ok"
    \/ \E k \in 1..Len(res.calls) : res.calls[k] = "defectIngest" /\ defectsDir \notin res.fs

\* DefectIngestTask.run returned in the call: it was the last task the
\* call ran, and the call returned
DefectTaskCompleted(res) ==
    /\ res.exc = ""
    /\ \E k \in 1..Len(res.tasks) : res.tasks[k] = "defects"

Idle == pc \in {"idle", "done", "aborted"}

\* the run at pc has ended with every stage returned and every task succeeded
Completed == pc = "done" /\ runOk

\* a driver function called on its own
Alone(op, d, i) ==
    /\ Reads(op, fs, d, i)
    /\ LET res == Call(op, fs, d, i)
       IN /\ fs' = res.fs
          /\ last' = Record(op, d, i, res)
          /\ defectsIngested' = (defectsIngested \/ DefectTaskCompleted(res))
    /\ UNCHANGED <<pc, runDataId, started, runTasks, runRets, runOk, prevRun>>
    /\ UNCHANGED selVars
    /\ UNCHANGED fileVars

DoIngest ==
    \E i \in IngestInputs :
        /\ Idle
        /\ Alone("doIngest", <<>>, i)

DoIngestCalibs ==
    \E i \in CalibInputs :
        /\ Idle
        /\ Alone("doIngestCalibs", <<>>, i)

DoProcessCcd ==
    \E d \in DataIds, i \in TaskInputs :
        /\ Idle
        /\ Alone("doProcessCcd", d, i)

DoDiffIm ==
    \E d \in DataIds, i \in TaskInputs :
        /\ Idle
        /\ Alone("doDiffIm", d, i)

(***************************************************************************)
(* runPipelineAlone                                                        *)
(***************************************************************************)
After_NoTemplate(stage) ==
    CASE stage = "doIngest" -> "doIngestCalibs"
      [] stage = "doIngestCalibs" -> "doProcessCcd"
      [] stage = "doProcessCcd" -> "doDiffIm"
      [] OTHER -> "done"

\* the statement of runPipelineAlone that follows the call of a stage
After(stage) ==
    CASE stage = "doIngest" -> "doIngestCalibs"
      [] stage = "doIngestCalibs" -> "doProcessCcd"
      [] stage = "doProcessCcd" -> "doProcessCcdTemplate"
      [] stage = "doProcessCcdTemplate" -> "doDiffIm"
      [] OTHER -> "done"

\* parsePipelineArgs: a run starts with the dataId of the command line
ParsePipelineArgs ==
    \E d \in DataIds :
        /\ Idle
        /\ pc' = "doIngest"
        /\ runDataId' = d
        /\ started' = <<>>
        /\ runTasks' = <<>>
        /\ runRets' = <<>>
        /\ runOk' = TRUE
        /\ prevRun' = [completed |-> Completed,
                       dataId |-> IF Completed THEN runDataId ELSE <<>>]
        /\ UNCHANGED <<fs, last, defectsIngested>>
        /\ UNCHANGED selVars
        /\ UNCHANGED fileVars

\* the stage at pc runs; an exception it raises ends the run
Stage(op, i) ==
    /\ Reads(op, fs, runDataId, i)
    /\ LET res == Call(op, fs, runDataId, i)
       IN /\ fs' = res.fs
          /\ started' = Append(started, op)
          /\ runTasks' = runTasks \o res.tasks
          /\ runRets' = IF res.exc = "" THEN Append(runRets, res.val) ELSE runRets
          /\ runOk' = (runOk /\ res.exc = "" /\ ~TaskFailedInside(res, i))
          /\ pc' = IF res.exc = "" THEN After(op) ELSE "aborted"
          /\ defectsIngested' = (defectsIngested \/ DefectTaskCompleted(res))
    /\ UNCHANGED <<runDataId, prevRun, last>>
    /\ UNCHANGED selVars
    /\ UNCHANGED fileVars

PipelineDoIngest ==
    \E i \in IngestInputs :
        /\ pc = "doIngest"
        /\ Stage("doIngest", i)

PipelineDoIngestCalibs ==
    \E i \in CalibInputs :
        /\ pc = "doIngestCalibs"
        /\ Stage("doIngestCalibs", i)

PipelineDoProcessCcd ==
    \E i \in TaskInputs :
        /\ pc = "doProcessCcd"
        /\ Stage("doProcessCcd", i)

PipelineDoProcessCcdTemplate ==
    \E i \in TaskInputs :
        /\ pc = "doProcessCcdTemplate"
        /\ Stage("doProcessCcdTemplate", i)

PipelineDoDiffIm ==
    \E i \in TaskInputs :
        /\ pc = "doDiffIm"
        /\ Stage("doDiffIm", i)


(***************************************************************************)
(* MaxPsfWcsSelectImagesTask.runDataRef                                    *)
(*                                                                         *)
(* A candidate image is what runDataRef reads of a SelectStruct: whether   *)
(* its calexp can be read, how pixelToSky ends on its corners, what        *)
(* convexHull makes of the corners (a polygon that intersects the patch, a *)
(* polygon disjoint from it, or None), and the determinant radius of its   *)
(* PSF, in pixels.  FWHMs are in thousandths of a pixel.                   *)
(***************************************************************************)
MaxImages == 2
MaxPsfSize == 2

\* np.sqrt(8.*np.log(2.)) = 2.3548..., in thousandths
SIGMA_TO_FWHM == 2355
\* the defaults of maxPsfFwhm and minPsfFwhm, in thousandths of a pixel
maxPsfFwhmDefault == 5000
minPsfFwhmDefault == 0

WcsOutcomes == {"ok", "DomainError", "RuntimeError"}
Hulls == {"intersects", "disjoint", "None"}

\* an image sets only what runDataRef comes to use of it
Images ==
    {im \in [calexp : BOOLEAN, wcs : WcsOutcomes, hull : Hulls, psf_size : 1..MaxPsfSize] :
        /\ (~im.calexp => im.wcs = "ok" /\ im.hull = "intersects")
        /\ (im.wcs # "ok" => im.hull = "intersects")
        /\ (~im.calexp \/ im.hull # "intersects" \/ im.wcs # "ok" => im.psf_size = 1)}

SelectDataLists == UNION {[1..n -> Images] : n \in 0..MaxImages}

\* the values of minPsfFwhm and maxPsfFwhm the task is configured with
FwhmBounds == {minPsfFwhmDefault, SIGMA_TO_FWHM, maxPsfFwhmDefault}

imageDecision_WcsErrorRaises(patch, im) ==
    IF ~im.calexp THEN "NoResults"
    ELSE IF im.wcs # "ok" THEN im.wcs
    ELSE IF im.hull = "None" THEN "deselect"
    ELSE IF patch = "None" THEN "AttributeError"
    ELSE IF im.hull = "intersects" THEN "select"
    ELSE "deselect"

imageDecision_KeepsDisjoint(patch, im) ==
    IF ~im.calexp THEN "NoResults"
    ELSE IF im.wcs # "ok" THEN "deselect"
    ELSE IF im.hull = "None" THEN "deselect"
    ELSE IF patch = "None" THEN "AttributeError"
    ELSE "select"

\* the body of the loop over selectDataList (85-107) for one image: the
\* image is kept for the FWHM filter, deselected, or an exception leaves
\* runDataRef
imageDecision(patch, im) ==
    IF ~im.calexp THEN "NoResults"
    ELSE IF im.wcs # "ok" THEN "deselect"
    ELSE IF im.hull = "None" THEN "deselect"
    ELSE IF patch = "None" THEN "AttributeError"
    ELSE IF im.hull = "intersects" THEN "select"
    ELSE "deselect"

\* the loop over selectDataList from its k-th image on, with the indices
\* acc of the images kept so far
RECURSIVE overlapping(_, _, _, _)
overlapping(patch, list, k, acc) ==
    IF k > Len(list) THEN [exc |-> "", kept |-> acc]
    ELSE LET d == imageDecision(patch, list[k])
         IN CASE d = "select" -> overlapping(patch, list, k + 1, Append(acc, k))
              [] d = "deselect" -> overlapping(patch, list, k + 1, acc)
              [] OTHER -> [exc |-> d, kept |-> <<>>]

\* size_sigma * np.sqrt(8.*np.log(2.))
size_fwhm(size_sigma) == size_sigma * SIGMA_TO_FWHM

FwhmSelected_Inclusive(fwhm, minPsfFwhm, maxPsfFwhm) ==
    fwhm <= maxPsfFwhm /\ fwhm >= minPsfFwhm

FwhmSelected_AboveBoth(fwhm, minPsfFwhm, maxPsfFwhm) ==
    fwhm > maxPsfFwhm /\ fwhm > minPsfFwhm

\* size_fwhm < self.config.maxPsfFwhm and size_fwhm > self.config.minPsfFwhm
FwhmSelected(fwhm, minPsfFwhm, maxPsfFwhm) ==
    fwhm < maxPsfFwhm /\ fwhm > minPsfFwhm

\* the subsequence of the indices in kept whose image passes the filter
RECURSIVE filtered(_, _, _, _)
filtered(list, kept, minPsfFwhm, maxPsfFwhm) ==
    IF kept = <<>> THEN <<>>
    ELSE LET k == Head(kept)
             rest == filtered(list, Tail(kept), minPsfFwhm, maxPsfFwhm)
         IN IF FwhmSelected(size_fwhm(list[k].psf_size), minPsfFwhm, maxPsfFwhm)
            THEN <<k>> \o rest
            ELSE rest

NoCall ==
    [called |-> FALSE, minPsfFwhm |-> 0, maxPsfFwhm |-> 0, makeDataRefList |-> FALSE,
     exc |-> "", exposureInfoList |-> <<>>, dataRefList |-> <<>>, dataRefListIsNone |-> FALSE]

\* the Struct runDataRef returns, its lists as the indices of the images in
\* selectDataList, or the exception that leaves it
runDataRef(patch, list, minPsfFwhm, maxPsfFwhm, makeDataRefList) ==
    LET o == overlapping(patch, list, 1, <<>>)
        sel == IF o.exc = "" THEN filtered(list, o.kept, minPsfFwhm, maxPsfFwhm) ELSE <<>>
    IN [called |-> TRUE, minPsfFwhm |-> minPsfFwhm, maxPsfFwhm |-> maxPsfFwhm,
        makeDataRefList |-> makeDataRefList,
        exc |-> o.exc,
        exposureInfoList |-> sel,
        dataRefList |-> IF makeDataRefList THEN sel ELSE <<>>,
        dataRefListIsNone |-> o.exc = "" /\ ~makeDataRefList]

\* the task, configured with the two bounds, is run on the candidates
RunDataRef ==
    \E lo \in FwhmBounds, hi \in FwhmBounds, makeDataRefList \in BOOLEAN :
        /\ selPrev' = selLast
        /\ selLast' = runDataRef(patchPoly, selectDataList, lo, hi, makeDataRefList)
        /\ UNCHANGED <<patchPoly, selectDataList>>
        /\ UNCHANGED pipeVars
        /\ UNCHANGED fileVars

(***************************************************************************)
(* get_calibdatafiles                                                      *)
(*                                                                         *)
(* Path and file names are strings.  The directory dataset_root/calib is   *)
(* the sequence calibDir of its names in the order the system lists them;  *)
(* none of the names of a dataset starts with a dot.                       *)
(***************************************************************************)
MaxCalibFiles == 3

MASTERCAL_DIR == "calib"

\* t in s, of Python strings
Contains(s, t) ==
    \E k \in 1..(Len(s) - Len(t) + 1) : SubSeq(s, k, k + Len(t) - 1) = t

\* s.endswith(t)
EndsWith(s, t) ==
    Len(s) >= Len(t) /\ SubSeq(s, Len(s) - Len(t) + 1, Len(s)) = t

\* os.path.join(a, b) for a relative b
os_path_join(a, b) ==
    IF a = "" \/ EndsWith(a, "/") THEN a \o b ELSE a \o "/" \o b

\* the name matches the pattern '*' + suffix: a leading dot is not matched
\* by '*'
fnmatch(name, suffix) ==
    /\ EndsWith(name, suffix)
    /\ SubSeq(name, 1, 1) # "."

\* glob(os.path.join(dir, '*' + suffix)) on a directory with the names of
\* listing: the paths of the names that match, in the order of the listing
glob(dir, listing, suffix) ==
    LET Matches(name) == fnmatch(name, suffix)
        names == SelectSeq(listing, Matches)
    IN [k \in 1..Len(names) |-> os_path_join(dir, names[k])]

types == <<".fits", ".fz">>
filestoignore == {"fcw", "zcw", "ici"}

\* for files in types: allcalibdatafiles.extend(glob(...))
RECURSIVE allcalibdatafiles(_, _, _)
allcalibdatafiles(dir, listing, k) ==
    IF k > Len(types) THEN <<>>
    ELSE glob(dir, listing, types[k]) \o allcalibdatafiles(dir, listing, k + 1)

\* all(string not in file for string in filestoignore), of a path that
\* glob returned
NotIgnored(file) ==
    \A string \in filestoignore : ~Contains(file, string)

\* the paths of allcalibdatafiles that are not ignored, in their order
get_calibdatafiles(root, listing) ==
    LET dir == os_path_join(root, MASTERCAL_DIR)
    IN SelectSeq(allcalibdatafiles(dir, listing, 1), NotIgnored)

\* the dataset roots get_calibdatafiles is called with
DatasetRoots == {"ap_verify_hits2015", "/datasets/", "/home/alicia/hits2015", "."}

\* the names a calib directory holds: flats (fci) and biases (zci), their
\* weight maps (fcw, zcw), illumination corrections (ici), the defect
\* tarball
CalibNames ==
    {"c4d_fci_25.fits", "c4d_zci_25.fz", "c4d_fcw_25.fits", "c4d_zcw_25.fz",
     "c4d_ici_25.fits", "defects_2014-12-05.tar.gz"}

\* the listings of a directory: no name twice
Listings ==
    {l \in UNION {[1..n -> CalibNames] : n \in 0..MaxCalibFiles} :
        \A j, k \in 1..Len(l) : j # k => l[j] # l[k]}

NoFilesCall == [called |-> FALSE, calibdatafiles |-> <<>>]

GetCalibdatafiles ==
    /\ calibLast' = [called |-> TRUE,
                     calibdatafiles |-> get_calibdatafiles(dataset_root, calibDir)]
    /\ UNCHANGED <<dataset_root, calibDir>>
    /\ UNCHANGED pipeVars
    /\ UNCHANGED selVars

\* no call of get_calibdatafiles
InitNoFiles ==
    /\ dataset_root = "."
    /\ calibDir = <<>>
    /\ calibLast = NoFilesCall

InitPipeline ==
    /\ fs = {}
    /\ pc = "idle"
    /\ runDataId = <<>>
    /\ started = <<>>
    /\ runTasks = <<>>
    /\ runRets = <<>>
    /\ runOk = TRUE
    /\ prevRun = [completed |-> FALSE, dataId |-> <<>>]
    /\ defectsIngested = FALSE
    /\ last = [op |-> "none", dataId |-> <<>>, inputs |-> NoInputs, entry |-> {},
               res |-> Returned({}, <<>>, <<>>, None),
               flatBias_metadata |-> None, flatBias_exc |-> "",
               defect_metadata |-> None, defect_exc |-> ""]

\* the driver functions on a new output location; no image selection
Init ==
    /\ InitPipeline
    /\ patchPoly = "poly"
    /\ selectDataList = <<>>
    /\ selPrev = NoCall
    /\ selLast = NoCall
    /\ InitNoFiles

\* image selection on any patch and list of candidates
InitSelect ==
    /\ InitPipeline
    /\ patchPoly \in {"poly", "None"}
    /\ selectDataList \in SelectDataLists
    /\ selPrev = NoCall
    /\ selLast = NoCall
    /\ InitNoFiles

\* get_calibdatafiles on any dataset root and calib directory
InitFiles ==
    /\ InitPipeline
    /\ patchPoly = "poly"
    /\ selectDataList = <<>>
    /\ selPrev = NoCall
    /\ selLast = NoCall
    /\ dataset_root \in DatasetRoots
    /\ calibDir \in Listings
    /\ calibLast = NoFilesCall

NextFiles == GetCalibdatafiles

SpecFiles == InitFiles /\ [][NextFiles]_vars

NextSelect == RunDataRef

SpecSelect == InitSelect /\ [][NextSelect]_vars

\* the driver functions called on their own, in any order
Next ==
    \/ DoIngest
    \/ DoIngestCalibs
    \/ DoProcessCcd
    \/ DoDiffIm

Spec == Init /\ [][Next]_vars

\* runPipelineAlone, run again and again on one output location
NextPipeline ==
    \/ ParsePipelineArgs
    \/ PipelineDoIngest
    \/ PipelineDoIngestCalibs
    \/ PipelineDoProcessCcd
    \/ PipelineDoProcessCcdTemplate
    \/ PipelineDoDiffIm

SpecPipeline == Init /\ [][NextPipeline]_vars

(***************************************************************************)
(* Properties of the driver functions and of runPipelineAlone              *)
(***************************************************************************)
InRun == pc # "idle"
AllNone(rets) == \A k \in 1..Len(rets) : rets[k] = None
Called(name) == \E k \in 1..Len(last.res.calls) : last.res.calls[k] = name
Skipped == last.res.exc = "" /\ last.res.val = None /\ last.res.tasks = <<>>
FsUnchanged == fs = last.entry

\* C1: a run of the pipeline that follows a run with the same dataId in
\* which every stage returned and every external task succeeded invokes no
\* external task, and each of its stages returns None.
C1_RepeatedRunSkipsEveryStage ==
    (InRun /\ prevRun.completed /\ prevRun.dataId = runDataId) =>
        /\ runTasks = <<>>
        /\ AllNone(runRets)
        /\ Len(runRets) = Len(started)
        /\ pc # "aborted"

\* the second of two runs with the same dataId has ended, and the first one
\* had run the five tasks
C1_Witness ==
    /\ pc = "done"
    /\ prevRun.completed
    /\ prevRun.dataId = runDataId
    /\ Len(runRets) = 5
    /\ {registry, cpBIAS, defectsDir, "processed/0410985", "processed/0410929",
        "diffim/deepDiff/v410985"} \subseteq fs

\* C4: the stages of a run start in the order doIngest, doIngestCalibs,
\* doProcessCcd (science), doProcessCcd (template), doDiffIm, each after
\* the one before it has returned, and after a stage has raised no other
\* stage of the run starts.
C4_StagesInOrder ==
    /\ Len(started) <= Len(Stages)
    /\ \A k \in 1..Len(started) : started[k] = Stages[k]
    /\ \A k \in 1..Len(Stages) :
          pc = Stages[k] => Len(started) = k - 1 /\ Len(runRets) = k - 1
    /\ pc = "done" => started = Stages /\ Len(runRets) = Len(Stages)
    /\ pc = "aborted" => Len(started) >= 1 /\ Len(runRets) = Len(started) - 1
    /\ pc = "idle" => started = <<>>

\* doProcessCcd on the template raised: the run has ended before doDiffIm
C4_Witness ==
    /\ pc = "aborted"
    /\ started = <<"doIngest", "doIngestCalibs", "doProcessCcd", "doProcessCcdTemplate">>
    /\ Len(runRets) = 3

\* the checkpoint marker of the last call was there at its entry
MarkerAtEntry ==
    CASE last.op = "doIngest" -> "ingested/registry.sqlite3" \in last.entry
      [] last.op = "doProcessCcd" ->
            \E v \in {SCIENCE_VISIT, TEMPLATE_VISIT} :
                /\ last.dataId \in {DataId(v, c) : c \in {"25", "5"}}
                /\ ("processed/0" \o v) \in last.entry
      [] last.op = "doDiffIm" ->
            \E v \in {SCIENCE_VISIT, TEMPLATE_VISIT} :
                /\ last.dataId \in {DataId(v, c) : c \in {"25", "5"}}
                /\ ("diffim/deepDiff/v" \o v) \in last.entry
      [] OTHER -> FALSE

\* C5: a call of doIngest, doProcessCcd or doDiffIm that finds its
\* checkpoint marker returns None, runs no external task and leaves the
\* filesystem as it found it.
C5_MarkerMeansSkip ==
    MarkerAtEntry => Skipped /\ FsUnchanged

\* doProcessCcd has found the directory of its visit
C5_Witness ==
    /\ last.op = "doProcessCcd"
    /\ MarkerAtEntry
    /\ Skipped

\* the dataId of the last call has no 'visit'
NoVisit == last.dataId = <<"ccdnum", "=", "25">>

\* C6: doProcessCcd and doDiffIm raise RuntimeError for a dataId without
\* 'visit', with the filesystem unchanged and no external task run,
\* whatever markers exist.
C6_MissingVisitRaisesFirst ==
    (last.op \in {"doProcessCcd", "doDiffIm"} /\ NoVisit) =>
        /\ last.res.exc = "RuntimeError"
        /\ last.res.tasks = <<>>
        /\ FsUnchanged

\* doDiffIm has raised for a dataId without 'visit' on an output location
\* that holds processed visits and difference images
C6_Witness ==
    /\ last.op = "doDiffIm"
    /\ NoVisit
    /\ last.res.exc = "RuntimeError"
    /\ {"processed/0410985", "diffim/deepDiff/v410985"} \subseteq last.entry

\* C7: when the flat and bias ingest task raises an integrity error,
\* flatBiasIngest catches it and returns None, and doIngestCalibs goes on to
\* defectIngest and returns the defect metadata, or None.
C7_IntegrityErrorIsCaught ==
    (/\ last.op = "doIngestCalibs"
     /\ Called("flatBiasIngest")
     /\ last.inputs.fbOut = "IntegrityError") =>
        /\ last.flatBias_exc = ""
        /\ last.flatBias_metadata = None
        /\ Called("defectIngest")
        /\ last.res.exc = "" => last.res.val \in {None, Meta({"defect"})}

\* C8: doIngestCalibs returns None iff both ingests yielded None, the
\* combined metadata when neither did, and otherwise the metadata of the
\* one that did not.
C8_CalibMetadata ==
    (last.op = "doIngestCalibs" /\ last.res.exc = "") =>
        LET fb == last.flatBias_metadata
            df == last.defect_metadata
        IN /\ last.res.val = None <=> (fb = None /\ df = None)
           /\ (fb # None /\ df # None) => last.res.val = Meta({"flatBias", "defect"})
           /\ (fb # None /\ df = None) => last.res.val = Meta({"flatBias"})
           /\ (fb = None /\ df # None) => last.res.val = Meta({"defect"})

\* doIngestCalibs has returned the combined metadata of the two ingests
C8_Witness ==
    /\ last.op = "doIngestCalibs"
    /\ last.res.exc = ""
    /\ last.flatBias_metadata = Meta({"flatBias"})
    /\ last.defect_metadata = Meta({"defect"})
    /\ last.res.val = Meta({"flatBias", "defect"})

\* C9: doProcessCcd skips only a dataId that an earlier call has processed:
\* the calexp of its visit and ccdnum is there at entry.
C9_SkipsOnlyProcessedData ==
    (last.op = "doProcessCcd" /\ ~NoVisit /\ Skipped) =>
        \E v \in {SCIENCE_VISIT, TEMPLATE_VISIT}, c \in {"25", "5"} :
            /\ last.dataId = DataId(v, c)
            /\ ("processed/0" \o v \o "/calexp-" \o c) \in last.entry

\* C10 as stated: flatBiasIngest is invoked iff calib_repo/cpBIAS is not
\* there at entry, defectIngest is invoked on every call, after it, and
\* calib_repo is a directory afterwards.
C10_DefectIngestOnEveryCall ==
    last.op = "doIngestCalibs" =>
        /\ Called("flatBiasIngest") <=> "calibingested/cpBIAS" \notin last.entry
        /\ Called("defectIngest")
        /\ last.res.calls[Len(last.res.calls)] = "defectIngest"
        /\ "calibingested" \in fs

\* C10 as amended: defectIngest is invoked on every call in which
\* flatBiasIngest is skipped or returns; a call in which flatBiasIngest
\* raises ends there.
C10_DefectIngestUnlessFlatBiasRaises ==
    last.op = "doIngestCalibs" =>
        /\ Called("flatBiasIngest") <=> "calibingested/cpBIAS" \notin last.entry
        /\ last.flatBias_exc = "" =>
              /\ Called("defectIngest")
              /\ last.res.calls[Len(last.res.calls)] = "defectIngest"
        /\ last.flatBias_exc # "" =>
              /\ ~Called("defectIngest")
              /\ last.res.exc = last.flatBias_exc
        /\ "calibingested" \in fs

\* flat and bias ingestion was skipped for cpBIAS, and defectIngest was
\* called all the same
C10_Witness ==
    /\ last.op = "doIngestCalibs"
    /\ "calibingested/cpBIAS" \in last.entry
    /\ last.res.calls = <<"defectIngest">>
    /\ last.res.tasks = <<"defects">>

(***************************************************************************)
(* Properties of the image selection                                       *)
(***************************************************************************)
InList(x, seq) == \E k \in 1..Len(seq) : seq[k] = x
AllIn(a, b) == \A k \in 1..Len(a) : InList(a[k], b)

\* C2: of two calls on the same patch and candidates, the one with the
\* wider FWHM bounds selects every image the other one selects.
C2_MonotonicInFwhmBounds ==
    (/\ selPrev.called /\ selLast.called
     /\ selPrev.exc = "" /\ selLast.exc = ""
     /\ selLast.minPsfFwhm <= selPrev.minPsfFwhm
     /\ selPrev.maxPsfFwhm <= selLast.maxPsfFwhm) =>
        /\ AllIn(selPrev.exposureInfoList, selLast.exposureInfoList)
        /\ (selPrev.makeDataRefList /\ selLast.makeDataRefList) =>
               AllIn(selPrev.dataRefList, selLast.dataRefList)

\* a call selected an image, and the next one, with a lower minimum and
\* the same maximum, selected that one and another
C2_Witness ==
    /\ selPrev.called /\ selLast.called
    /\ selLast.minPsfFwhm < selPrev.minPsfFwhm
    /\ selPrev.maxPsfFwhm <= selLast.maxPsfFwhm
    /\ Len(selPrev.exposureInfoList) = 1
    /\ Len(selLast.exposureInfoList) = 2

\* C3: every image runDataRef returns, in exposureInfoList and in
\* dataRefList, has a WCS that converted its corners and a corner polygon
\* that exists and intersects the patch polygon.
C3_SelectedImagesOverlap ==
    selLast.called =>
        \A k \in 1..Len(selectDataList) :
            (InList(k, selLast.exposureInfoList) \/ InList(k, selLast.dataRefList)) =>
                /\ selectDataList[k].wcs = "ok"
                /\ selectDataList[k].hull = "intersects"

\* of two candidates, runDataRef returned one and left out the other, whose
\* polygon is disjoint from the patch, could not be built, or whose WCS failed
C3_Witness ==
    /\ selLast.called
    /\ Len(selectDataList) = 2
    /\ Len(selLast.exposureInfoList) = 1
    /\ selLast.dataRefList = selLast.exposureInfoList
    /\ \E k \in 1..2 : selectDataList[k].wcs # "ok" \/ selectDataList[k].hull # "intersects"

(***************************************************************************)
(* Properties of defectIngest, as doIngestCalibs calls it                  *)
(***************************************************************************)
\* defectIngest was called in the last call of doIngestCalibs
DefectIngestCalled == last.op = "doIngestCalibs" /\ Called("defectIngest")

\* os.mkdir('defects') raised OSError in it: the directory was there, or it
\* could not be created
MkdirRaised == "calibingested/defects" \in last.entry \/ last.inputs.mkdirFails

\* the defect ingest task was run in it
DefectTaskRan == InList("defects", last.res.tasks)

\* the tarball was extracted in it
TarballExtracted ==
    "calibingested/defects/defects_2014-12-05" \in fs \ last.entry

\* C11 as stated: defectIngest runs the defect ingest task iff os.mkdir of
\* 'defects' succeeds; when it raises OSError, defectIngest returns None,
\* extracts nothing, runs no task and raises nothing.
C11_TaskRunsIffMkdirSucceeds ==
    DefectIngestCalled =>
        /\ DefectTaskRan <=> ~MkdirRaised
        /\ MkdirRaised =>
              /\ last.defect_exc = ""
              /\ last.defect_metadata = None
              /\ ~TarballExtracted
              /\ ~DefectTaskRan

\* C11 as amended: the task is run iff os.mkdir succeeds and the tarball
\* extracts; when the extraction raises, that exception leaves defectIngest
\* with 'defects' created and no task run; when os.mkdir raises OSError,
\* defectIngest returns None, extracts nothing, runs no task and raises
\* nothing.
C11_TaskRunsIffMkdirAndExtractionSucceed ==
    DefectIngestCalled =>
        /\ DefectTaskRan <=> (~MkdirRaised /\ last.inputs.extracts)
        /\ (~MkdirRaised /\ ~last.inputs.extracts) =>
              /\ last.defect_exc = "IOError"
              /\ last.res.exc = "IOError"
              /\ "calibingested/defects" \in fs
              /\ ~TarballExtracted
        /\ MkdirRaised =>
              /\ last.defect_exc = ""
              /\ last.defect_metadata = None
              /\ ~TarballExtracted
              /\ ~DefectTaskRan

\* defectIngest found 'defects' in a calib_repo whose tarball an earlier
\* call had extracted, and returned None without a task
C11_Witness ==
    /\ DefectIngestCalled
    /\ "calibingested/defects" \in last.entry
    /\ "calibingested/defects/defects_2014-12-05" \in last.entry
    /\ last.defect_metadata = None
    /\ last.defect_exc = ""
    /\ last.res.tasks = <<>>
    /\ last.res.exc = ""

(***************************************************************************)
(* Properties of the image selection: the criterion and the exceptions     *)
(***************************************************************************)
\* the FWHM of the PSF of the k-th candidate, in thousandths of a pixel
FwhmOf(k) == selectDataList[k].psf_size * 2355

\* the k-th candidate meets the four conditions of the last call
MeetsCriterion(k) ==
    /\ selectDataList[k].wcs \notin {"DomainError", "RuntimeError"}
    /\ selectDataList[k].hull # "None"
    /\ selectDataList[k].hull = "intersects"
    /\ selLast.minPsfFwhm < FwhmOf(k)
    /\ FwhmOf(k) < selLast.maxPsfFwhm

\* C12: a call of runDataRef that returns selects an image exactly when its
\* corners converted without a DomainError or RuntimeError, its convex hull
\* is not None, the patch polygon intersects the hull and its FWHM is
\* strictly between minPsfFwhm and maxPsfFwhm; an image whose FWHM equals
\* one of the two bounds is not selected.
C12_SelectedIffCriterion ==
    (selLast.called /\ selLast.exc = "") =>
        \A k \in 1..Len(selectDataList) :
            /\ InList(k, selLast.exposureInfoList) <=> MeetsCriterion(k)
            /\ selLast.makeDataRefList =>
                  (InList(k, selLast.dataRefList) <=> MeetsCriterion(k))
            /\ FwhmOf(k) \in {selLast.minPsfFwhm, selLast.maxPsfFwhm} =>
                  /\ ~InList(k, selLast.exposureInfoList)
                  /\ ~InList(k, selLast.dataRefList)

\* of two candidates that overlap the patch, the call selected the one
\* whose FWHM is inside the bounds and not the one whose FWHM equals
\* minPsfFwhm
C12_Witness ==
    /\ selLast.called /\ selLast.exc = ""
    /\ Len(selectDataList) = 2
    /\ \A k \in 1..2 : selectDataList[k].wcs = "ok" /\ selectDataList[k].hull = "intersects"
    /\ \E k \in 1..2 :
          /\ FwhmOf(k) = selLast.minPsfFwhm
          /\ selLast.exposureInfoList = <<3 - k>>
          /\ selLast.dataRefList = <<3 - k>>

\* the calexp or the PSF of the k-th candidate cannot be obtained
CalexpFails(k) == ~selectDataList[k].calexp

\* the WCS of the k-th candidate raises on a corner
WcsFails(k) == selectDataList[k].wcs \in {"DomainError", "RuntimeError"}

\* the last call returned a selection in which every candidate is there or
\* not by the criterion
EveryImageEvaluated ==
    /\ selLast.exc = ""
    /\ \A k \in 1..Len(selectDataList) :
          InList(k, selLast.exposureInfoList) <=> MeetsCriterion(k)

\* C13 as stated: a candidate whose WCS raises, or whose calexp or PSF
\* cannot be obtained, is deselected, and runDataRef evaluates the other
\* candidates and returns.
C13_DefectiveImageOnlyDeselected ==
    (selLast.called /\ patchPoly # "None") =>
        /\ EveryImageEvaluated
        /\ \A k \in 1..Len(selectDataList) :
              (WcsFails(k) \/ CalexpFails(k)) => ~InList(k, selLast.exposureInfoList)

\* C13 as amended: a candidate whose WCS raises is deselected, and
\* runDataRef evaluates the other candidates and returns; a candidate whose
\* calexp or PSF cannot be obtained ends runDataRef with that exception and
\* without a result.
C13_WcsErrorOnlyDeselects ==
    (selLast.called /\ patchPoly # "None") =>
        /\ (\A k \in 1..Len(selectDataList) : ~CalexpFails(k)) =>
              /\ EveryImageEvaluated
              /\ \A k \in 1..Len(selectDataList) :
                    WcsFails(k) => ~InList(k, selLast.exposureInfoList)
        /\ (\E k \in 1..Len(selectDataList) : CalexpFails(k)) =>
              /\ selLast.exc = "NoResults"
              /\ selLast.exposureInfoList = <<>>
              /\ selLast.dataRefList = <<>>
              /\ ~selLast.dataRefListIsNone

\* the WCS of the first of two candidates raised, and the call returned the
\* second one
C13_Witness ==
    /\ selLast.called
    /\ patchPoly # "None"
    /\ Len(selectDataList) = 2
    /\ WcsFails(1)
    /\ selLast.exc = ""
    /\ selLast.exposureInfoList = <<2>>

(***************************************************************************)
(* Properties of get_calibdatafiles                                        *)
(***************************************************************************)
\* the file name ends in .fits or .fz
IsImageName(name) ==
    \E n \in 1..Len(name) :
        SubSeq(name, n, Len(name)) \in {".fits", ".fz"}

\* the file name has 'fcw', 'zcw' or 'ici' in it
IsIgnoredName(name) ==
    \E n \in 1..Len(name), m \in 1..Len(name) :
        SubSeq(name, n, m) \in {"fcw", "zcw", "ici"}

\* the path of the file of that name in the calib directory of the dataset
CalibPath(name) ==
    IF dataset_root = "/datasets/" THEN "/datasets/calib/" \o name
    ELSE dataset_root \o "/calib/" \o name

\* the number of times the last call returned the path
TimesReturned(path) ==
    Cardinality({k \in 1..Len(calibLast.calibdatafiles) :
                    calibLast.calibdatafiles[k] = path})

\* C14: get_calibdatafiles returns, once each, the files of
\* dataset_root/calib whose name ends in .fits or .fz and does not have
\* 'fcw', 'zcw' or 'ici' in it, whatever dataset_root is, and no other path.
C14_ReturnsFlatsAndBiases ==
    calibLast.called =>
        /\ \A k \in 1..Len(calibDir) :
              LET name == calibDir[k]
              IN IF IsImageName(name) /\ ~IsIgnoredName(name)
                 THEN TimesReturned(CalibPath(name)) = 1
                 ELSE TimesReturned(CalibPath(name)) = 0
        /\ \A k \in 1..Len(calibLast.calibdatafiles) :
              \E j \in 1..Len(calibDir) :
                  calibLast.calibdatafiles[k] = CalibPath(calibDir[j])

(***************************************************************************)
(* Checkpoints over sequences of calls                                     *)
(***************************************************************************)
\* C15: a call of doIngest that skips for repo/registry.sqlite3 finds both
\* reference catalogs extracted in repo: the call that made the registry
\* had completed, and a call that raised between the ingest task and the
\* end of the extractions is redone.
C15_IngestSkipMeansRefcats ==
    (/\ last.op = "doIngest"
     /\ "ingested/registry.sqlite3" \in last.entry
     /\ Skipped) =>
        /\ "ingested/ref_cats/gaia" \in last.entry
        /\ "ingested/ref_cats/pan-starrs" \in last.entry

\* C16: a call of defectIngest that finds calib_repo/defects and skips
\* comes after a call that ran the defect ingest task to its end: a call
\* that raised in the extraction or in the task is retried.
C16_DefectSkipMeansIngested ==
    (DefectIngestCalled /\ "calibingested/defects" \in last.entry) =>
        defectsIngested

====
